---- MODULE Spec2Model ----
(***************************************************************************)
(* State-machine model of the REST backend in src/app.py: the eleven HTTP  *)
(* handlers, the process bootstrap, and the document database and the      *)
(* generation API as seen through the calls the handlers make.             *)
(*                                                                         *)
(* A request body is the value request.json yields for it: kind "obj" (a   *)
(* JSON object, a function from field names to values), kind "null" (the   *)
(* body decodes to None) or kind "bad" (the body does not parse, so        *)
(* request.json raises BadRequest).  A time is the sentinel the handlers   *)
(* write, firestore.SERVER_TIMESTAMP.  add_mood_log makes three database   *)
(* calls and is one action per call, so that other requests run between    *)
(* them; every other handler makes at most one call and is one action.     *)
(***************************************************************************)
EXTENDS Integers, Sequences, FiniteSets, TLC

VARIABLES
    store,          \* the document database: document path -> document
    nextId,         \* source of the auto-generated document ids
    dbAvailable,    \* db is not None
    genAvailable,   \* gemini_model is not None
    inflight,       \* add_mood_log requests between two database calls
    logged,         \* private MoodLog ids whose POST answered 201
    last            \* the request step that led to this state, with its reply

vars == <<store, nextId, dbAvailable, genAvailable, inflight, logged, last>>

----------------------------------------------------------------------------
(* Bounds of the model *)

MaxDocs == 2        \* auto-generated document ids are 1..MaxDocs
MaxPad == 1         \* whitespace added on each side of a journal entry

Users == {"u1", "u2"}
Ids == 1..MaxDocs

----------------------------------------------------------------------------
(* Program constants *)

MinEntryLen == 10
MaxEntryLen == 2000
SettingsDoc == 0    \* the fixed document name 'settings'

Whitespace == {" ", "\t", "\n"}

\* firestore.SERVER_TIMESTAMP, the value the handlers write for a time
ServerTimestamp == "SERVER_TIMESTAMP"

----------------------------------------------------------------------------
(* Text: a string is the sequence of its runs, a run being a character   *)
(* and the number of times it is repeated; no run is empty and no two     *)
(* adjacent runs hold the same character.                                  *)

Run(c, n) == IF n = 0 THEN <<>> ELSE <<[c |-> c, n |-> n]>>

\* a + b
Cat(a, b) ==
    IF a = <<>> THEN b
    ELSE IF b = <<>> THEN a
    ELSE IF a[Len(a)].c = b[1].c
         THEN SubSeq(a, 1, Len(a) - 1) \o <<[c |-> b[1].c, n |-> a[Len(a)].n + b[1].n]>> \o Tail(b)
         ELSE a \o b

RECURSIVE StrLen(_)
\* len(s)
StrLen(s) == IF s = <<>> THEN 0 ELSE Head(s).n + StrLen(Tail(s))

RECURSIVE LStrip(_)
LStrip(s) == IF s # <<>> /\ Head(s).c \in Whitespace THEN LStrip(Tail(s)) ELSE s

RECURSIVE RStrip(_)
RStrip(s) ==
    IF s # <<>> /\ s[Len(s)].c \in Whitespace
    THEN RStrip(SubSeq(s, 1, Len(s) - 1))
    ELSE s

\* str.strip()
Strip(s) == RStrip(LStrip(s))

Spaces(n) == Run(" ", n)

\* n characters that start and end with a non-blank and hold a blank inside
Text(n) ==
    IF n < 3 THEN Run("x", n)
    ELSE Cat(Run("x", 1), Cat(Run(" ", 1), Run("x", n - 2)))

Happy == Run("happy", 1)
Sad == Run("sad", 1)

----------------------------------------------------------------------------
(* Request bodies *)

Obj(o) == [kind |-> "obj", obj |-> o]
NullBody == [kind |-> "null", obj |-> <<>>]
BadBody == [kind |-> "bad", obj |-> <<>>]
EmptyObj == Obj(<<>>)

\* `not data`
NoData(data) == data.kind = "null" \/ DOMAIN data.obj = {}

\* `not data.get(f)` for a data that is an object and a text field f
Missing(data, f) == f \notin DOMAIN data.obj \/ data.obj[f] = <<>>

----------------------------------------------------------------------------
(* Document paths: artifacts/{APP_ID}/... *)

SettingsPath(u) == <<"users", u, "userSettings", SettingsDoc>>
MoodPath(u, id) == <<"users", u, "moodLogs", id>>
\* a variant that drops the user from the path; C8 rejects it
JournalPath_shared(u, id) == <<"users", "u1", "journalEntries", id>>

JournalPath(u, id) == <<"users", u, "journalEntries", id>>
PublicPath(id) == <<"public", "data", "publicMoods", id>>

----------------------------------------------------------------------------
(* The database calls the handlers make *)

\* a variant that overwrites, as set() without merge does; C2 rejects it
MergeDoc_overwrite(old, data) == data

\* DocumentReference.set(data, merge=True)
MergeDoc(old, data) ==
    [f \in DOMAIN old \cup DOMAIN data |-> IF f \in DOMAIN data THEN data[f] ELSE old[f]]

SetMerge(s, p, data) ==
    IF p \in DOMAIN s
    THEN [s EXCEPT ![p] = MergeDoc(s[p], data)]
    ELSE (p :> data) @@ s

\* CollectionReference.add(doc) under the generated id
AddDoc(s, p, doc) == (p :> doc) @@ s

\* a variant that empties the collection of the document; C7 rejects it
DeleteDoc_collection(s, p) ==
    [q \in {q \in DOMAIN s : <<q[1], q[2], q[3]>> # <<p[1], p[2], p[3]>>} |-> s[q]]

\* DocumentReference.delete()
DeleteDoc(s, p) == [q \in DOMAIN s \ {p} |-> s[q]]

\* DocumentReference.update(fields) of an existing document
UpdateDoc(s, p, fields) == [s EXCEPT ![p] = MergeDoc(s[p], fields)]

----------------------------------------------------------------------------
(* Replies *)

NoDoc == <<>>
DbError == "storage error"          \* str(e) of a failed database call
NotFound == "document not found"    \* str(e) of update() on a missing document
GenError == "generation error"      \* str(e) of a failed generate_content
NoFirebase == "Firebase not initialized."
NoGemini == "Gemini API not configured."
ServerError == "Internal Server Error"   \* an exception no handler catches
BadRequest == "Bad Request"              \* request.json on an unparseable body

Step(op, u, id, data, status, msg, doc, calls, exc) ==
    [op |-> op, user |-> u, id |-> id, data |-> data, status |-> status,
     msg |-> msg, doc |-> doc, calls |-> calls, exc |-> exc]

----------------------------------------------------------------------------
(* Bootstrap *)

Init ==
    /\ store = <<>>
    /\ nextId = 1
    /\ dbAvailable \in BOOLEAN
    /\ genAvailable \in BOOLEAN
    /\ inflight = {}
    /\ logged = {}
    /\ last = Step("bootstrap", "", 0, NullBody, 0, "", NoDoc, <<>>, "")

\* the process starts again; the requests in progress end with it
Bootstrap ==
    /\ dbAvailable' \in BOOLEAN
    /\ genAvailable' \in BOOLEAN
    /\ inflight' = {}
    /\ last' = Step("bootstrap", "", 0, NullBody, 0, "", NoDoc, <<>>, "")
    /\ UNCHANGED <<store, nextId, logged>>

get_current_user_id ==
    /\ last' = Step("get_current_user_id", "", 0, NullBody, 200, "ok", NoDoc, <<>>, "")
    /\ UNCHANGED <<store, nextId, dbAvailable, genAvailable, inflight, logged>>

----------------------------------------------------------------------------
(* User settings *)

DefaultSettings == [hasAgreedToTerms |-> FALSE, wellWishers |-> <<>>]

SettingsBodies ==
    {NullBody, BadBody, EmptyObj,
     Obj([hasAgreedToTerms |-> TRUE]),
     Obj([wellWishers |-> <<"w1">>]),
     Obj([hasAgreedToTerms |-> FALSE, wellWishers |-> <<>>])}

CoreSettingsBodies == {NullBody, BadBody, Obj([hasAgreedToTerms |-> TRUE])}

\* a variant that stores the default it returns; C9 rejects it
get_user_settings_create(u, ok) ==
    LET p == SettingsPath(u)
        R(status, msg, doc, calls, exc) ==
            last' = Step("get_user_settings", u, 0, NullBody, status, msg, doc, calls, exc)
    IN  /\ IF ~dbAvailable THEN R(500, NoFirebase, NoDoc, <<>>, "") /\ store' = store
           ELSE IF ~ok THEN R(500, DbError, NoDoc, <<"userSettings.get">>, DbError) /\ store' = store
           ELSE IF p \in DOMAIN store
                THEN R(200, "", store[p], <<"userSettings.get">>, "") /\ store' = store
           ELSE /\ R(200, "", DefaultSettings, <<"userSettings.get">>, "")
                /\ store' = (p :> DefaultSettings) @@ store
        /\ UNCHANGED <<nextId, dbAvailable, genAvailable, inflight, logged>>

get_user_settings(u, ok) ==
    LET p == SettingsPath(u)
        R(status, msg, doc, calls, exc) ==
            last' = Step("get_user_settings", u, 0, NullBody, status, msg, doc, calls, exc)
    IN  /\ IF ~dbAvailable THEN R(500, NoFirebase, NoDoc, <<>>, "")
           ELSE IF ~ok THEN R(500, DbError, NoDoc, <<"userSettings.get">>, DbError)
           ELSE IF p \in DOMAIN store THEN R(200, "", store[p], <<"userSettings.get">>, "")
           ELSE R(200, "", DefaultSettings, <<"userSettings.get">>, "")
        /\ UNCHANGED <<store, nextId, dbAvailable, genAvailable, inflight, logged>>

\* a variant that reads the body before it tests the client; C5 rejects it
update_user_settings_body_first(u, data, ok) ==
    LET p == SettingsPath(u)
        R(status, msg, calls, exc) ==
            last' = Step("update_user_settings", u, 0, data, status, msg, NoDoc, calls, exc)
    IN  /\ IF data.kind = "bad" THEN R(400, BadRequest, <<>>, "") /\ store' = store
           ELSE IF NoData(data) THEN R(400, "No data provided.", <<>>, "") /\ store' = store
           ELSE IF ~dbAvailable THEN R(500, NoFirebase, <<>>, "") /\ store' = store
           ELSE IF ~ok THEN R(500, DbError, <<"userSettings.set">>, DbError) /\ store' = store
           ELSE /\ store' = SetMerge(store, p, data.obj)
                /\ R(200, "Settings updated successfully", <<"userSettings.set">>, "")
        /\ UNCHANGED <<nextId, dbAvailable, genAvailable, inflight, logged>>

update_user_settings(u, data, ok) ==
    LET p == SettingsPath(u)
        R(status, msg, calls, exc) ==
            last' = Step("update_user_settings", u, 0, data, status, msg, NoDoc, calls, exc)
    IN  /\ IF ~dbAvailable THEN R(500, NoFirebase, <<>>, "") /\ store' = store
           ELSE IF data.kind = "bad" THEN R(400, BadRequest, <<>>, "") /\ store' = store
           ELSE IF NoData(data) THEN R(400, "No data provided.", <<>>, "") /\ store' = store
           ELSE IF ~ok THEN R(500, DbError, <<"userSettings.set">>, DbError) /\ store' = store
           ELSE /\ store' = SetMerge(store, p, data.obj)
                /\ R(200, "Settings updated successfully", <<"userSettings.set">>, "")
        /\ UNCHANGED <<nextId, dbAvailable, genAvailable, inflight, logged>>

----------------------------------------------------------------------------
(* Mood logging *)

\* a variant without the timestamp; C3 rejects it
MoodDoc_unstamped(mood, u) == [mood |-> mood, userId |-> u]

MoodDoc(mood, u) == [mood |-> mood, timestamp |-> ServerTimestamp, userId |-> u]

MoodBodies ==
    {NullBody, BadBody, EmptyObj, Obj([mood |-> <<>>]),
     Obj([mood |-> Happy]), Obj([mood |-> Sad])}

CoreMoodBodies == {NullBody, EmptyObj, Obj([mood |-> Happy])}

\* the public copies that the requests in progress have still to write; a create
\* is taken only while there are ids left for it and for them
Pending == Cardinality({r \in inflight : r.pc = "public"})

\* add_mood_log up to and including the write of the private copy
add_mood_log(u, data, ok) ==
    LET R(status, msg, calls, exc) ==
            last' = Step("add_mood_log", u, 0, data, status, msg, NoDoc, calls, exc)
        Quit == UNCHANGED <<store, nextId, inflight>>
    IN  /\ IF ~dbAvailable THEN R(500, NoFirebase, <<>>, "") /\ Quit
           ELSE IF data.kind = "bad" THEN R(400, BadRequest, <<>>, "") /\ Quit
           ELSE IF data.kind = "null" THEN R(500, ServerError, <<>>, "AttributeError") /\ Quit
           ELSE IF Missing(data, "mood") THEN R(400, "Mood is required", <<>>, "") /\ Quit
           ELSE IF ~ok THEN R(500, DbError, <<"moodLogs.add">>, DbError) /\ Quit
           ELSE /\ nextId + Pending + 1 \in Ids
                /\ store' = AddDoc(store, MoodPath(u, nextId), MoodDoc(data.obj.mood, u))
                /\ nextId' = nextId + 1
                /\ inflight' = inflight \cup {[pc |-> "public", user |-> u, data |-> data, privId |-> nextId]}
                /\ last' = Step("add_mood_log", u, nextId, data, 0, "", NoDoc, <<"moodLogs.add">>, "")
        /\ UNCHANGED <<dbAvailable, genAvailable, logged>>

\* a variant that deletes the private copy when the public write fails; C4 rejects it
add_mood_log_public_rollback(r, ok) ==
    LET u == r.user
    IN  /\ r \in inflight /\ r.pc = "public"
        /\ IF ~ok
           THEN /\ last' = Step("add_mood_log", u, r.privId, r.data, 500, DbError, NoDoc,
                                <<"moodLogs.add", "publicMoods.add">>, DbError)
                /\ inflight' = inflight \ {r}
                /\ store' = DeleteDoc(store, MoodPath(u, r.privId))
                /\ UNCHANGED nextId
           ELSE /\ nextId \in Ids
                /\ store' = AddDoc(store, PublicPath(nextId), MoodDoc(r.data.obj.mood, u))
                /\ nextId' = nextId + 1
                /\ inflight' = (inflight \ {r}) \cup {[r EXCEPT !.pc = "settings"]}
                /\ last' = Step("add_mood_log", u, r.privId, r.data, 0, "", NoDoc,
                                <<"moodLogs.add", "publicMoods.add">>, "")
        /\ UNCHANGED <<dbAvailable, genAvailable, logged>>

\* add_mood_log: the write of the public copy
add_mood_log_public(r, ok) ==
    LET u == r.user
    IN  /\ r \in inflight /\ r.pc = "public"
        /\ IF ~ok
           THEN /\ last' = Step("add_mood_log", u, r.privId, r.data, 500, DbError, NoDoc,
                                <<"moodLogs.add", "publicMoods.add">>, DbError)
                /\ inflight' = inflight \ {r}
                /\ UNCHANGED <<store, nextId>>
           ELSE /\ nextId \in Ids
                /\ store' = AddDoc(store, PublicPath(nextId), MoodDoc(r.data.obj.mood, u))
                /\ nextId' = nextId + 1
                /\ inflight' = (inflight \ {r}) \cup {[r EXCEPT !.pc = "settings"]}
                /\ last' = Step("add_mood_log", u, r.privId, r.data, 0, "", NoDoc,
                                <<"moodLogs.add", "publicMoods.add">>, "")
        /\ UNCHANGED <<dbAvailable, genAvailable, logged>>

\* add_mood_log: the read of the user's settings, and the reply
add_mood_log_settings(r, ok) ==
    LET u == r.user
        calls == <<"moodLogs.add", "publicMoods.add", "userSettings.get">>
    IN  /\ r \in inflight /\ r.pc = "settings"
        /\ inflight' = inflight \ {r}
        /\ IF ~ok
           THEN /\ last' = Step("add_mood_log", u, r.privId, r.data, 500, DbError, NoDoc, calls, DbError)
                /\ logged' = logged
           ELSE /\ last' = Step("add_mood_log", u, r.privId, r.data, 201,
                                "Mood logged successfully", NoDoc, calls, "")
                /\ logged' = logged \cup {MoodPath(u, r.privId)}
        /\ UNCHANGED <<store, nextId, dbAvailable, genAvailable>>

\* a variant that deletes the public copies of the user too; C10 rejects it
delete_mood_log_both(u, id, ok) ==
    LET R(status, msg, calls, exc) ==
            last' = Step("delete_mood_log", u, id, NullBody, status, msg, NoDoc, calls, exc)
    IN  /\ IF ~dbAvailable THEN R(500, NoFirebase, <<>>, "") /\ store' = store
           ELSE IF ~ok THEN R(500, DbError, <<"moodLogs.delete">>, DbError) /\ store' = store
           ELSE /\ store' = [q \in {q \in DOMAIN store :
                                       /\ q # MoodPath(u, id)
                                       /\ ~(q[1] = "public" /\ store[q].userId = u)} |-> store[q]]
                /\ R(200, "Mood log deleted successfully", <<"moodLogs.delete">>, "")
        /\ UNCHANGED <<nextId, dbAvailable, genAvailable, inflight, logged>>

delete_mood_log(u, id, ok) ==
    LET R(status, msg, calls, exc) ==
            last' = Step("delete_mood_log", u, id, NullBody, status, msg, NoDoc, calls, exc)
    IN  /\ IF ~dbAvailable THEN R(500, NoFirebase, <<>>, "") /\ store' = store
           ELSE IF ~ok THEN R(500, DbError, <<"moodLogs.delete">>, DbError) /\ store' = store
           ELSE /\ store' = DeleteDoc(store, MoodPath(u, id))
                /\ R(200, "Mood log deleted successfully", <<"moodLogs.delete">>, "")
        /\ UNCHANGED <<nextId, dbAvailable, genAvailable, inflight, logged>>

----------------------------------------------------------------------------
(* Journaling *)

\* a variant that measures the entry as sent; C1 rejects it
ValidEntry_untrimmed(data) ==
    /\ ~Missing(data, "entry")
    /\ ~(StrLen(data.obj.entry) < MinEntryLen)
    /\ ~(StrLen(data.obj.entry) > MaxEntryLen)

\* the negation of the test that answers 400
ValidEntry(data) ==
    /\ ~Missing(data, "entry")
    /\ ~(StrLen(Strip(data.obj.entry)) < MinEntryLen)
    /\ ~(StrLen(Strip(data.obj.entry)) > MaxEntryLen)

JournalDoc(entry, u) == [entry |-> Strip(entry), timestamp |-> ServerTimestamp, userId |-> u]

JournalUpdate(entry) == [entry |-> Strip(entry), updatedAt |-> ServerTimestamp]

EntryLens == {0, MinEntryLen - 1, MinEntryLen, MaxEntryLen, MaxEntryLen + 1}

Padded(e) == Cat(Spaces(MaxPad), Cat(e, Spaces(MaxPad)))

\* each length bare, the shortest and the longest one between blanks, and blanks only
Entries ==
    {Text(n) : n \in EntryLens}
        \cup {Padded(Text(MinEntryLen - 1)), Padded(Text(MaxEntryLen)), Spaces(MinEntryLen + MaxPad)}

JournalBodies == {EmptyObj} \cup {Obj([entry |-> e]) : e \in Entries}

CoreJournalBodies ==
    {NullBody,
     Obj([entry |-> Padded(Text(MinEntryLen))]),
     Obj([entry |-> Padded(Text(MinEntryLen - 1))])}

add_journal_entry(u, data, ok) ==
    LET R(id, status, msg, calls, exc) ==
            last' = Step("add_journal_entry", u, id, data, status, msg, NoDoc, calls, exc)
        Quit == UNCHANGED <<store, nextId>>
    IN  /\ IF ~dbAvailable THEN R(0, 500, NoFirebase, <<>>, "") /\ Quit
           ELSE IF data.kind = "bad" THEN R(0, 400, BadRequest, <<>>, "") /\ Quit
           ELSE IF data.kind = "null" THEN R(0, 500, ServerError, <<>>, "AttributeError") /\ Quit
           ELSE IF ~ValidEntry(data)
                THEN R(0, 400, "Journal entry must be between 10 and 2000 characters.", <<>>, "") /\ Quit
           ELSE IF ~ok THEN R(0, 500, DbError, <<"journalEntries.add">>, DbError) /\ Quit
           ELSE /\ nextId + Pending \in Ids
                /\ store' = AddDoc(store, JournalPath(u, nextId), JournalDoc(data.obj.entry, u))
                /\ nextId' = nextId + 1
                /\ R(nextId, 201, "Journal entry saved successfully", <<"journalEntries.add">>, "")
        /\ UNCHANGED <<dbAvailable, genAvailable, inflight, logged>>

update_journal_entry(u, id, data, ok) ==
    LET p == JournalPath(u, id)
        R(status, msg, calls, exc) ==
            last' = Step("update_journal_entry", u, id, data, status, msg, NoDoc, calls, exc)
    IN  /\ IF ~dbAvailable THEN R(500, NoFirebase, <<>>, "") /\ store' = store
           ELSE IF data.kind = "bad" THEN R(400, BadRequest, <<>>, "") /\ store' = store
           ELSE IF data.kind = "null" THEN R(500, ServerError, <<>>, "AttributeError") /\ store' = store
           ELSE IF ~ValidEntry(data)
                THEN R(400, "Journal entry must be between 10 and 2000 characters.", <<>>, "")
                     /\ store' = store
           ELSE IF ~ok THEN R(500, DbError, <<"journalEntries.update">>, DbError) /\ store' = store
           ELSE IF p \notin DOMAIN store
                THEN R(500, NotFound, <<"journalEntries.update">>, NotFound) /\ store' = store
           ELSE /\ store' = UpdateDoc(store, p, JournalUpdate(data.obj.entry))
                /\ R(200, "Journal entry updated successfully", <<"journalEntries.update">>, "")
        /\ UNCHANGED <<nextId, dbAvailable, genAvailable, inflight, logged>>

delete_journal_entry(u, id, ok) ==
    LET R(status, msg, calls, exc) ==
            last' = Step("delete_journal_entry", u, id, NullBody, status, msg, NoDoc, calls, exc)
    IN  /\ IF ~dbAvailable THEN R(500, NoFirebase, <<>>, "") /\ store' = store
           ELSE IF ~ok THEN R(500, DbError, <<"journalEntries.delete">>, DbError) /\ store' = store
           ELSE /\ store' = DeleteDoc(store, JournalPath(u, id))
                /\ R(200, "Journal entry deleted successfully", <<"journalEntries.delete">>, "")
        /\ UNCHANGED <<nextId, dbAvailable, genAvailable, inflight, logged>>

----------------------------------------------------------------------------
(* AI integration *)

GenTexts == {Text(3)}

AIBodies(f) == {NullBody, BadBody, EmptyObj, Obj(f :> Text(2))}

\* the three handlers differ in the request field, the prompt and the reply field
ai_handler(op, f, required, out, data, ok, text) ==
    LET R(status, msg, doc, calls, exc) ==
            last' = Step(op, "", 0, data, status, msg, doc, calls, exc)
    IN  /\ IF ~genAvailable THEN R(500, NoGemini, NoDoc, <<>>, "")
           ELSE IF data.kind = "bad" THEN R(400, BadRequest, NoDoc, <<>>, "")
           ELSE IF data.kind = "null" THEN R(500, ServerError, NoDoc, <<>>, "AttributeError")
           ELSE IF Missing(data, f) THEN R(400, required, NoDoc, <<>>, "")
           ELSE IF ~ok THEN R(500, GenError, NoDoc, <<"generate_content">>, GenError)
           ELSE R(200, "", out :> text, <<"generate_content">>, "")
        /\ UNCHANGED <<store, nextId, dbAvailable, genAvailable, inflight, logged>>

summarize_journal(data, ok, text) ==
    ai_handler("summarize_journal", "text", "Journal text is required for summarization.",
               "summary", data, ok, text)

get_ai_coping_suggestion(data, ok, text) ==
    ai_handler("get_ai_coping_suggestion", "mood", "Mood is required for coping suggestion.",
               "suggestion", data, ok, text)

chat_with_ai(data, ok, text) ==
    ai_handler("chat_with_ai", "message", "Message is required for chat.", "response", data, ok, text)

----------------------------------------------------------------------------
(* Specifications *)

\* the requests of the users U with the bodies B
SettingsRequests(U, B) ==
    \/ \E u \in U, ok \in BOOLEAN : get_user_settings(u, ok)
    \/ \E u \in U, data \in B, ok \in BOOLEAN : update_user_settings(u, data, ok)

MoodRequests(U, B) ==
    \/ \E u \in U, data \in B, ok \in BOOLEAN : add_mood_log(u, data, ok)
    \/ \E r \in inflight, ok \in BOOLEAN : add_mood_log_public(r, ok)
    \/ \E r \in inflight, ok \in BOOLEAN : add_mood_log_settings(r, ok)
    \/ \E u \in U, id \in Ids, ok \in BOOLEAN : delete_mood_log(u, id, ok)

JournalRequests(U, B) ==
    \/ \E u \in U, data \in B, ok \in BOOLEAN : add_journal_entry(u, data, ok)
    \/ \E u \in U, id \in Ids, data \in B, ok \in BOOLEAN : update_journal_entry(u, id, data, ok)
    \/ \E u \in U, id \in Ids, ok \in BOOLEAN : delete_journal_entry(u, id, ok)

AIRequests ==
    \/ \E data \in AIBodies("text"), ok \in BOOLEAN, text \in GenTexts :
           summarize_journal(data, ok, text)
    \/ \E data \in AIBodies("mood"), ok \in BOOLEAN, text \in GenTexts :
           get_ai_coping_suggestion(data, ok, text)
    \/ \E data \in AIBodies("message"), ok \in BOOLEAN, text \in GenTexts :
           chat_with_ai(data, ok, text)

\* every handler, over any number of runs of the process, for one user
Next ==
    \/ Bootstrap
    \/ get_current_user_id
    \/ SettingsRequests({"u1"}, CoreSettingsBodies)
    \/ MoodRequests({"u1"}, CoreMoodBodies)
    \/ JournalRequests({"u1"}, CoreJournalBodies)
    \/ AIRequests

Spec == Init /\ [][Next]_vars

\* a run of the process in which the generation client is configured: the handlers
\* below never use it
InitDb == Init /\ genAvailable

\* the requests of both users that reach the database
NextUsers ==
    \/ SettingsRequests(Users, {Obj([hasAgreedToTerms |-> TRUE])})
    \/ MoodRequests(Users, {Obj([mood |-> Happy])})
    \/ JournalRequests(Users, {Obj([entry |-> Padded(Text(MinEntryLen))])})

SpecUsers == InitDb /\ [][NextUsers]_vars

\* the journal requests of one user, with entries around both length limits
NextJournals == JournalRequests({"u1"}, JournalBodies)

SpecJournals == InitDb /\ [][NextJournals]_vars

\* the settings requests, with every kind of settings body
NextSettings == SettingsRequests(Users, SettingsBodies)

SpecSettings == InitDb /\ [][NextSettings]_vars

\* the mood requests
NextMoods == MoodRequests(Users, MoodBodies)

SpecMoods == InitDb /\ [][NextMoods]_vars

----------------------------------------------------------------------------
(* Properties *)

DbOps ==
    {"get_user_settings", "update_user_settings", "add_mood_log", "delete_mood_log",
     "add_journal_entry", "update_journal_entry", "delete_journal_entry"}

AIOps == {"summarize_journal", "get_ai_coping_suggestion", "chat_with_ai"}

BodyOps ==
    {"update_user_settings", "add_mood_log", "add_journal_entry", "update_journal_entry"}
        \cup AIOps

PublicDocs(s) == {q \in DOMAIN s : q[1] = "public"}

\* the step changes no document but the one at p
OnlyChanges(p) ==
    \A q \in (DOMAIN store \cup DOMAIN store') \ {p} :
        q \in DOMAIN store /\ q \in DOMAIN store' /\ store'[q] = store[q]

InRange(e) == MinEntryLen <= StrLen(Strip(e)) /\ StrLen(Strip(e)) <= MaxEntryLen

C1Step ==
    LET l == last'
        p == JournalPath(l.user, l.id)
    IN  (l.op \in {"add_journal_entry", "update_journal_entry"}
            /\ dbAvailable /\ l.data.kind = "obj" /\ l.exc = "")
        => IF "entry" \in DOMAIN l.data.obj /\ InRange(l.data.obj.entry)
           THEN /\ l.status = IF l.op = "add_journal_entry" THEN 201 ELSE 200
                /\ p \in DOMAIN store'
                /\ store'[p].entry = Strip(l.data.obj.entry)
                /\ OnlyChanges(p)
           ELSE l.status = 400 /\ store' = store

\* C1: with the database available and no database call raising, POST and PUT
\* journals accept a body whose entry is a text iff 10 <= trimmed length <= 2000;
\* an accepted entry is stored trimmed and nothing else changes; a rejected one
\* (no entry, an empty one, a length out of range) gets 400 and changes nothing.
C1_JournalLengthRule == [][C1Step]_vars

\* a PUT of 2000 characters between blanks was accepted and stored trimmed
C1_Witness ==
    /\ last.op = "update_journal_entry"
    /\ last.status = 200
    /\ StrLen(last.data.obj.entry) > MaxEntryLen
    /\ StrLen(store[JournalPath(last.user, last.id)].entry) = MaxEntryLen

C2Step ==
    LET l == last'
        p == SettingsPath(l.user)
        B == l.data.obj
    IN  /\ (l.op = "update_user_settings" /\ dbAvailable /\ l.exc = ""
                /\ l.data.kind = "obj" /\ DOMAIN B # {})
           => l.status = 200
        /\ (l.op = "update_user_settings" /\ l.status = 200)
           => /\ DOMAIN B # {}
              /\ p \in DOMAIN store'
              /\ \A f \in DOMAIN B : store'[p][f] = B[f]
              /\ IF p \in DOMAIN store
                 THEN /\ DOMAIN store'[p] = DOMAIN store[p] \cup DOMAIN B
                      /\ \A f \in DOMAIN store[p] \ DOMAIN B : store'[p][f] = store[p][f]
                 ELSE DOMAIN store'[p] = DOMAIN B
              /\ OnlyChanges(p)
        /\ (l.op = "get_user_settings" /\ l.status = 200 /\ p \in DOMAIN store)
           => l.doc = store[p]

\* C2: a successful POST settings with body B leaves the user's settings document
\* with B's value for every field of B and the previous value for every other
\* field (exactly the fields of B when there was no document), and a GET returns
\* the stored document.
C2_SettingsMerge == [][C2Step]_vars

\* a POST of hasAgreedToTerms alone kept the wellWishers stored before
C2_Witness ==
    /\ last.op = "update_user_settings"
    /\ last.status = 200
    /\ DOMAIN last.data.obj = {"hasAgreedToTerms"}
    /\ DOMAIN store[SettingsPath(last.user)] = {"hasAgreedToTerms", "wellWishers"}
    /\ store[SettingsPath(last.user)].hasAgreedToTerms = TRUE
    /\ store[SettingsPath(last.user)].wellWishers = <<"w1">>

IsMoodDoc(d, l) ==
    /\ DOMAIN d = {"mood", "timestamp", "userId"}
    /\ d.mood = l.data.obj.mood
    /\ d.userId = l.user
    /\ d.timestamp = ServerTimestamp

C3Step ==
    LET l == last'
        p == MoodPath(l.user, l.id)
    IN  l.op = "add_mood_log" =>
        /\ (l.status = 0 /\ Len(l.calls) = 1)
           => /\ p \notin DOMAIN store /\ p \in DOMAIN store'
              /\ IsMoodDoc(store'[p], l)
              /\ OnlyChanges(p)
        /\ (l.status = 0 /\ Len(l.calls) = 2)
           => \E q \in PublicDocs(store') :
                  /\ q \notin DOMAIN store
                  /\ IsMoodDoc(store'[q], l)
                  /\ OnlyChanges(q)
        /\ l.status = 201
           => /\ l.calls = <<"moodLogs.add", "publicMoods.add", "userSettings.get">>
              /\ store' = store
        /\ (l.status # 0 /\ dbAvailable /\ l.exc = ""
                /\ l.data.kind = "obj" /\ "mood" \in DOMAIN l.data.obj /\ l.data.obj.mood # <<>>)
           => l.status = 201

\* C3: POST moods for user U with a non-empty mood whose database calls all
\* succeed answers 201 after one add to U's moodLogs and one add to publicMoods,
\* each of one new document holding the mood, userId U and a timestamp; no other
\* document changes.
C3_MoodDualWrite == [][C3Step]_vars

\* a POST answered 201 and both copies are stored
C3_Witness ==
    /\ last.op = "add_mood_log"
    /\ last.status = 201
    /\ MoodPath(last.user, last.id) \in DOMAIN store
    /\ \E q \in PublicDocs(store) :
           store[q].userId = last.user /\ store[q].mood = last.data.obj.mood

C4Step ==
    LET l == last'
    IN  (l.op = "add_mood_log" /\ l.calls = <<"moodLogs.add", "publicMoods.add">> /\ l.exc # "")
        => /\ store' = store
           /\ l.status = 500
           /\ l.msg = l.exc
           /\ \A r \in inflight' : r.privId # l.id

\* C4: when the public write of POST moods fails, the handler changes no document
\* (the private MoodLog is not rolled back, no PublicMood appears), makes no
\* further call and answers 500 with the error text.
C4_NoCompensation == [][C4Step]_vars

\* the public write failed and the private MoodLog is stored without a public copy
C4_Witness ==
    /\ last.op = "add_mood_log"
    /\ last.status = 500
    /\ last.calls = <<"moodLogs.add", "publicMoods.add">>
    /\ MoodPath(last.user, last.id) \in DOMAIN store
    /\ PublicDocs(store) = {}

C5Step ==
    LET l == last'
    IN  /\ (l.op \in DbOps /\ ~dbAvailable)
           => /\ l.status = 500 /\ l.msg = NoFirebase /\ l.calls = <<>>
              /\ store' = store /\ nextId' = nextId
        /\ (l.op \in AIOps /\ ~genAvailable)
           => /\ l.status = 500 /\ l.msg = NoGemini /\ l.calls = <<>>
              /\ store' = store /\ nextId' = nextId

\* C5: a handler whose collaborator client is unavailable answers 500 with its
\* fixed error body whatever the request body is, makes no collaborator call and
\* changes no document.
C5_UnavailableFirst == [][C5Step]_vars

\* a POST settings with a body that decodes to no data, while documents are stored
C5_Witness ==
    /\ ~dbAvailable
    /\ last.op = "update_user_settings"
    /\ last.data.kind = "null"
    /\ last.status = 500
    /\ store # <<>>

\* C6: with the collaborator available, a write endpoint given a body that decodes
\* to no data answers 400 "No data provided." and makes no collaborator call.
C6_NoDataIs400 ==
    (/\ last.op \in BodyOps
     /\ last.data.kind = "null"
     /\ (last.op \in AIOps => genAvailable)
     /\ (last.op \in DbOps => dbAvailable))
    => last.status = 400 /\ last.msg = "No data provided." /\ last.calls = <<>>

C7Step ==
    LET l == last'
        p == IF l.op = "delete_mood_log" THEN MoodPath(l.user, l.id)
             ELSE JournalPath(l.user, l.id)
    IN  (l.op \in {"delete_mood_log", "delete_journal_entry"} /\ dbAvailable /\ l.exc = "")
        => /\ l.status = 200
           /\ Len(l.calls) = 1
           /\ DOMAIN store' = DOMAIN store \ {p}
           /\ OnlyChanges(p)

\* C7: with the database available and not failing, DELETE of a mood or a journal
\* answers 200 after the delete call alone; it removes the addressed document when
\* it exists and changes nothing when it does not.
C7_DeleteIdempotent == [][C7Step]_vars

\* a DELETE of an id that was never created answered 200, other documents stored
C7_Witness ==
    /\ last.op \in {"delete_mood_log", "delete_journal_entry"}
    /\ last.status = 200
    /\ last.id >= nextId
    /\ \E q \in DOMAIN store : q[3] \in {"moodLogs", "journalEntries"}

C8Step ==
    LET l == last'
        Changed(q) == ~(q \in DOMAIN store /\ q \in DOMAIN store' /\ store'[q] = store[q])
    IN  /\ store' # store
           => \A q \in DOMAIN store \cup DOMAIN store' :
                  Changed(q) =>
                      \/ q[1] = "users" /\ q[2] = l.user
                      \/ /\ q[1] = "public"
                         /\ q \notin DOMAIN store
                         /\ store'[q].userId = l.user
        /\ (l.op = "get_user_settings" /\ l.status = 200)
           => l.doc = IF SettingsPath(l.user) \in DOMAIN store
                      THEN store[SettingsPath(l.user)]
                      ELSE DefaultSettings

\* C8: a request for user U changes no document outside users/U except for a new
\* publicMoods document with userId U, and a GET settings for U returns U's
\* document or the default.
C8_UserIsolation == [][C8Step]_vars

\* a request of u2 named the id of a journal of u1, which is still stored
C8_Witness ==
    /\ last.op \in {"update_journal_entry", "delete_journal_entry"}
    /\ last.user = "u2"
    /\ last.calls # <<>>
    /\ last.exc \in {"", NotFound}
    /\ JournalPath("u1", last.id) \in DOMAIN store

C9Step ==
    LET l == last'
        p == SettingsPath(l.user)
    IN  /\ (l.op = "get_user_settings" /\ dbAvailable /\ l.exc = "")
           => /\ l.status = 200
              /\ store' = store
              /\ l.doc = IF p \in DOMAIN store
                         THEN store[p]
                         ELSE [hasAgreedToTerms |-> FALSE, wellWishers |-> <<>>]
        /\ \A u \in Users :
               (SettingsPath(u) \notin DOMAIN store /\ SettingsPath(u) \in DOMAIN store')
               => l.op = "update_user_settings" /\ l.user = u /\ l.status = 200

\* C9: GET settings of a user without a settings document answers 200 with
\* {hasAgreedToTerms: false, wellWishers: []} and creates nothing; the document
\* appears only with a successful POST settings of that user; GET of a stored
\* document returns it.
C9_DefaultSettings == [][C9Step]_vars

\* a GET answered the default for a user without a document
C9_Witness ==
    /\ last.op = "get_user_settings"
    /\ last.status = 200
    /\ SettingsPath(last.user) \notin DOMAIN store
    /\ last.doc = [hasAgreedToTerms |-> FALSE, wellWishers |-> <<>>]
    /\ \E u \in Users : SettingsPath(u) \in DOMAIN store

C10Step == \A q \in PublicDocs(store) : q \in DOMAIN store' /\ store'[q] = store[q]

C10Count == Cardinality(PublicDocs(store)) >= Cardinality(logged \cap DOMAIN store)

\* C10: no step changes or removes a PublicMood document, and the number of
\* PublicMood documents is at least the number of stored private MoodLogs whose
\* POST answered 201.
C10_PublicOnlyGrows == []C10Count /\ [][C10Step]_vars

\* the private log of a POST that answered 201 was deleted; the public copy stays
C10_Witness ==
    /\ last.op = "delete_mood_log"
    /\ last.status = 200
    /\ MoodPath(last.user, last.id) \in logged
    /\ MoodPath(last.user, last.id) \notin DOMAIN store
    /\ \E q \in PublicDocs(store) : store[q].userId = last.user

====
